---------------------------- MODULE Spec2Model ----------------------------
(***************************************************************************)
(* Model of the DermaSim acne simulation engine (src/simulation.js, class  *)
(* AcneSimulation) and of the handlers of src/main.js that drive it.       *)
(*                                                                         *)
(* Numbers.  The engine computes with JavaScript doubles.  The model uses  *)
(* fixed-point numbers: a real x is the integer x * Unit, and every        *)
(* product of two reals is rounded down to a multiple of 1/Unit (FMul),    *)
(* one rounding per multiplication of the source, in the source's order    *)
(* of evaluation.  Control parameters are plain integers (0..1000), as     *)
(* the sliders deliver them.  simulationTime is counted in ticks of 1/60   *)
(* hour, the amount updateParameters adds per call.                        *)
(***************************************************************************)
EXTENDS Integers, Sequences, FiniteSets, TLC

VARIABLES
    simulationTime,            \* ticks of 1/60 simulated hour
    simulationStage,
    sebumValue, bacteriaValue, medicationValue, inflammationValue,
    healingValue, temperatureValue, humidityValue, frictionValue,
    sebumRate, bacteriaGrowthRate, baselineInflammation, humidityEffect,
    currentSebumLevel, currentBacteriaLevel, currentInflammationLevel,
    currentNeutrophilLevel, currentPusLevel, currentMedicationLevel,
    healingProgress,
    progressionAccelerator,
    lastLogTime,
    exception,                 \* outcome of the last call: "none" or "TypeError"
    lastOp,                    \* name of the last operation performed
    lastArg,                   \* stage name or slider id handed to it, if any
    lastValue,                 \* number handed to it, if any
    scaledDelta,               \* main.js: elapsed time handed to the last update
    prevStage,                 \* simulationStage before the last operation
    manualOps,                 \* number of calls other than update so far
    pending,                   \* calls the user interface has yet to make
    isSimulationRunning,       \* main.js
    frameRequested,            \* main.js: a simulationLoop callback is scheduled
    scheduledFrames,           \* main.js: number of simulationLoop callbacks
                               \* requested and neither run nor cancelled
    twinBacteriaLevel,         \* currentBacteriaLevel of a second engine, once
                               \* one runs beside this one with the other
                               \* medication parameter
    otherEngine                \* <<>>, or the one-element sequence holding
                               \* the fields of a second AcneSimulation object

params == <<sebumValue, bacteriaValue, medicationValue, inflammationValue,
            healingValue, temperatureValue, humidityValue, frictionValue>>
rates  == <<sebumRate, bacteriaGrowthRate, baselineInflammation, humidityEffect>>
levels == <<currentSebumLevel, currentBacteriaLevel, currentInflammationLevel,
            currentNeutrophilLevel, currentPusLevel, healingProgress>>
driver == <<isSimulationRunning, frameRequested, scheduledFrames>>
vars   == <<simulationTime, simulationStage, params, rates, levels,
            currentMedicationLevel, progressionAccelerator, lastLogTime,
            exception, lastOp, lastArg, lastValue, scaledDelta, prevStage,
            manualOps, pending, driver, twinBacteriaLevel, otherEngine>>

-----------------------------------------------------------------------------
(* Fixed-point arithmetic *)

Unit == 60 * 500

\* The fixed-point value of the decimal literal n/d.
Lit(n, d) == (n * Unit) \div d

Min(a, b) == IF a < b THEN a ELSE b
Max(a, b) == IF a > b THEN a ELSE b

\* x * y for two non-negative fixed-point numbers, rounded down; the product
\* is split so that no intermediate value leaves the 32-bit integers.
FMul(x, y) ==
    LET xh == x \div Unit
        xl == x % Unit
        yh == y \div Unit
        yl == y % Unit
    IN  xh * yh * Unit + xh * yl + xl * yh + (xl * yl) \div Unit

Undefined == -1

-----------------------------------------------------------------------------
(* Constants of the constructor *)

SEBUM_THRESHOLD        == 70
BACTERIA_THRESHOLD     == 60
INFLAMMATION_THRESHOLD == 40
PUS_THRESHOLD          == 70
RUPTURE_THRESHOLD      == 90
HEALING_THRESHOLD      == 30
RESOLVED_THRESHOLD     == 80

validStages == {"incubation", "comedone", "papule", "pustule",
                "rupture", "healing", "worsening", "resolved"}

\* dt handed to updateBiologicalState by updateParameters: 1/60.
TickDt == Lit(1, 60)

-----------------------------------------------------------------------------
(* Bounds of the model *)

MaxTicks  == 2
MaxManual == 2
MaxRunTicks == 200
MaxCalls == 4
MaxDefaultTicks == 100
MaxDtTicks == 8
MaxUiCalls == 2
MaxUiTicks == 3
MaxWaitTicks == 3200
MaxTwinTicks == 45
MaxLoopTicks == 3
MaxPairOps == 3
MaxClicks == 4

\* Parameter settings, in the order of params: the constructor's, the two
\* ends of the slider scale, and the maximum with medication 0 or alone.
DefaultProfile == <<500, 200, 0, 500, 500, 500, 500, 0>>
ParamProfiles == { DefaultProfile,
                   <<0, 0, 0, 0, 0, 0, 0, 0>>,
                   <<1000, 1000, 1000, 1000, 1000, 1000, 1000, 1000>>,
                   <<1000, 1000, 0, 1000, 1000, 1000, 1000, 1000>>,
                   <<0, 0, 1000, 0, 0, 0, 0, 0>>,
                   <<500, 1000, 500, 1000, 0, 0, 1000, 500>> }

\* Parameter settings of the runs without end.
LiveParams == { <<0, 200, 0, 500, 500, 500, 500, 0>>,
                <<0, 1000, 0, 1000, 1000, 1000, 1000, 1000>> }
LiveClock == 120

\* Parameter settings of the long runs.
RunParams == { <<1000, 1000, 0, 1000, 1000, 1000, 1000, 1000>>,
               <<1000, 1000, 1000, 1000, 1000, 1000, 1000, 1000>> }

\* The sliders handleSliderChange knows, and the values they deliver.
SliderIds == {"sebum-slider", "bacteria-slider", "medication-slider",
              "inflammation-slider", "healing-slider", "temperature-slider",
              "humidity-slider", "friction-slider"}
SliderInputs == {0, 800, 1000}

\* Arguments handed to setProgressionAccelerator.
AcceleratorInputs == {0, Lit(1, 1), Lit(20, 1)}

\* Arguments handed to setStage: the eight stages and one unknown name.
StageInputs == validStages \cup {"scarring"}

\* Elapsed times simulationLoop hands to update: one frame of 1/60 s at the
\* speed multipliers 1, 2 and 3.
DtInputs == {Lit(1, 60), Lit(2, 60), Lit(3, 60)}

\* Bookkeeping of a call other than update: the calls are counted, and the
\* call, its arguments and the stage it found are remembered.
Logged(op, arg, value) ==
    /\ manualOps' = manualOps + 1
    /\ lastOp' = op
    /\ lastArg' = arg
    /\ lastValue' = value
    /\ prevStage' = simulationStage
    /\ UNCHANGED <<scaledDelta, twinBacteriaLevel, otherEngine>>

CalledWith(op, arg) == Logged(op, arg, Undefined)

Called(op) == CalledWith(op, "")

-----------------------------------------------------------------------------
(* constructor *)

\* The fields the constructor assigns, the control parameters apart.
ConstructedState ==
    /\ simulationTime = 0
    /\ simulationStage = "incubation"
    /\ sebumRate = Lit(5, 100)
    /\ bacteriaGrowthRate = Lit(5, 100)
    /\ baselineInflammation = Undefined
    /\ humidityEffect = Undefined
    /\ currentSebumLevel = 20 * Unit
    /\ currentBacteriaLevel = 0
    /\ currentInflammationLevel = 0
    /\ currentNeutrophilLevel = 0
    /\ currentPusLevel = 0
    /\ currentMedicationLevel = 0
    /\ progressionAccelerator = Lit(1, 1)
    /\ healingProgress = 0
    /\ lastLogTime = Undefined
    /\ exception = "none"
    /\ lastOp = "constructor"
    /\ lastArg = ""
    /\ lastValue = Undefined
    /\ scaledDelta = Undefined
    /\ twinBacteriaLevel = Undefined
    /\ otherEngine = <<>>
    /\ prevStage = "incubation"
    /\ manualOps = 0
    /\ isSimulationRunning = FALSE
    /\ frameRequested = FALSE
    /\ scheduledFrames = 0

\* The eight parameter fields hold the tuple p, in the order of params.
ParamsAre(p) ==
    /\ sebumValue = p[1]
    /\ bacteriaValue = p[2]
    /\ medicationValue = p[3]
    /\ inflammationValue = p[4]
    /\ healingValue = p[5]
    /\ temperatureValue = p[6]
    /\ humidityValue = p[7]
    /\ frictionValue = p[8]

\* A constructed engine whose parameter fields the user interface has set
\* to values of the slider scale before the first call.
Init ==
    /\ ConstructedState
    /\ pending = <<>>
    /\ \E p \in ParamProfiles : ParamsAre(p)

InitDefaults ==
    /\ ConstructedState
    /\ pending = <<>>
    /\ ParamsAre(DefaultProfile)

-----------------------------------------------------------------------------
(* updateDerivedRates *)

\* NewSebumRate with twice the temperature coefficient: negative on cold skin.
NewSebumRate_Steep ==
    FMul(FMul(Lit(5, 100), Unit + Lit(4, 1000) * (temperatureValue - 500)),
         progressionAccelerator)

NewSebumRate ==
    FMul(FMul(Lit(5, 100), Unit + Lit(2, 1000) * (temperatureValue - 500)),
         progressionAccelerator)

\* bacteriaGrowthRate of an engine whose medication parameter is medication.
BacteriaGrowthRateWith(medication) ==
    FMul(FMul(FMul(Lit(5, 100), Unit + Lit(1, 1000) * (temperatureValue - 500)),
              Unit - Lit(medication, 2000)),
         progressionAccelerator)

NewBacteriaGrowthRate == BacteriaGrowthRateWith(medicationValue)

NewBaselineInflammation ==
    IF frictionValue > 300 THEN Lit(frictionValue - 300, 1400) ELSE 0

NewHumidityEffect ==
    IF humidityValue > 600 THEN Unit + Lit(humidityValue - 600, 800) ELSE Unit

\* NewMedicationLevel with the gain of the parameter ten times too large.
NewMedicationLevel_Gain ==
    FMul(currentMedicationLevel, Lit(99, 100))
        + FMul(medicationValue * Unit, Lit(1, 10))

\* NewMedicationLevel with twice the weight on the parameter: the level
\* settles at twice the parameter.
NewMedicationLevel_Double ==
    FMul(currentMedicationLevel, Lit(99, 100))
        + FMul(medicationValue * Unit, Lit(2, 100))

NewMedicationLevel ==
    FMul(currentMedicationLevel, Lit(99, 100))
        + FMul(medicationValue * Unit, Lit(1, 100))

-----------------------------------------------------------------------------
(* updateBiologicalState(dt), step by step.  Each step is an operator of the
   values the earlier steps of the same call have produced. *)

\* Sebum, on the sebumRate updateDerivedRates has just set.
NewSebumLevel(rate, dt) ==
    LET scaledSebumRate == FMul(FMul(rate, Lit(sebumValue, 500)), dt)
    IN  Min(100 * Unit, currentSebumLevel + scaledSebumRate)

\* BacteriaAfter without the test of the stage.
BacteriaAfter_Ungated(level, medication, growthRate, dt) ==
    LET baseBacteriaGrowth ==
            IF level > 0
            THEN FMul(FMul(level, growthRate), dt)
            ELSE FMul(FMul(Lit(bacteriaValue, 100), dt), Lit(2, 1))
        grown == Min(100 * Unit, level + baseBacteriaGrowth)
    IN  IF medication > 0
        THEN Max(0, grown - FMul(Lit(medication, 10000), dt))
        ELSE grown

\* The bacteria step on a bacteria level and a medication parameter.
BacteriaAfter(level, medication, growthRate, dt) ==
    IF simulationStage # "incubation"
    THEN LET baseBacteriaGrowth ==
                 IF level > 0
                 THEN FMul(FMul(level, growthRate), dt)
                 ELSE FMul(FMul(Lit(bacteriaValue, 100), dt), Lit(2, 1))
             grown == Min(100 * Unit, level + baseBacteriaGrowth)
         IN  IF medication > 0
             THEN Max(0, grown - FMul(Lit(medication, 10000), dt))
             ELSE grown
    ELSE level

\* Bacteria, on the bacteriaGrowthRate updateDerivedRates has just set.
NewBacteriaLevel(growthRate, dt) ==
    BacteriaAfter(currentBacteriaLevel, medicationValue, growthRate, dt)

\* InflammationEvolves with the floor of the rate (30) in the place of the
\* bacteria threshold.
InflammationEvolves_Floor(bacteria) ==
    \/ bacteria > 30 * Unit
    \/ simulationStage = "comedone"
    \/ simulationStage = "papule"

\* The condition of the inflammation step, on the new bacteria level.
InflammationEvolves(bacteria) ==
    \/ bacteria > BACTERIA_THRESHOLD * Unit
    \/ simulationStage = "comedone"
    \/ simulationStage = "papule"

\* InflammationRate with baselineInflammation, the friction term of
\* updateDerivedRates, added in.
InflammationRate_Friction(bacteria, dt) ==
    FMul(FMul(FMul((Max(bacteria, 30 * Unit) - 30 * Unit) \div 40
                       + NewBaselineInflammation,
                   Lit(inflammationValue, 500)),
              dt),
         progressionAccelerator)

InflammationRate(bacteria, dt) ==
    FMul(FMul(FMul((Max(bacteria, 30 * Unit) - 30 * Unit) \div 40,
                   Lit(inflammationValue, 500)),
              dt),
         progressionAccelerator)

\* currentInflammationLevel after the inflammation step (before healing).
RaisedInflammation(bacteria, dt) ==
    IF InflammationEvolves(bacteria)
    THEN Min(100 * Unit, currentInflammationLevel + InflammationRate(bacteria, dt))
    ELSE currentInflammationLevel

\* currentNeutrophilLevel after the inflammation step; inflammation is the
\* level that step has just stored.
RaisedNeutrophil(bacteria, inflammation, dt) ==
    IF /\ InflammationEvolves(bacteria)
       /\ inflammation > (INFLAMMATION_THRESHOLD * Unit) \div 2
    THEN Min(100 * Unit,
             currentNeutrophilLevel
                 + FMul(InflammationRate(bacteria, dt), Lit(2, 1)))
    ELSE currentNeutrophilLevel

\* RaisedPus without the test of the stage.
RaisedPus_AnyStage(neutrophil, dt) ==
    IF neutrophil > 10 * Unit
    THEN Min(100 * Unit,
             currentPusLevel
                 + FMul(FMul(neutrophil \div 80, dt), progressionAccelerator))
    ELSE currentPusLevel

\* currentPusLevel after the pus step, on the neutrophil level just stored.
RaisedPus(neutrophil, dt) ==
    IF /\ neutrophil > 10 * Unit
       /\ simulationStage \in {"papule", "pustule"}
    THEN Min(100 * Unit,
             currentPusLevel
                 + FMul(FMul(neutrophil \div 80, dt), progressionAccelerator))
    ELSE currentPusLevel

InHealingPhase == simulationStage \in {"healing", "resolved"}

HealingRate(dt) == FMul(Lit(healingValue, 500), dt)

\* The healing step's decay of a level by factor * healingRate.
Healed(level, factor, dt) ==
    IF InHealingPhase
    THEN Max(0, level - FMul(HealingRate(dt), factor))
    ELSE level

\* HealingShortcut taken only once healingProgress has reached the resolved
\* threshold.
HealingShortcut_NeedsProgress(inflammation, pus) ==
    /\ simulationStage = "healing"
    /\ inflammation < 10 * Unit
    /\ pus < 5 * Unit
    /\ healingProgress >= RESOLVED_THRESHOLD * Unit

\* The promotion healing -> resolved made inside the integration step, on
\* the inflammation and pus levels the healing step has just stored.
HealingShortcut(inflammation, pus) ==
    /\ simulationStage = "healing"
    /\ inflammation < 10 * Unit
    /\ pus < 5 * Unit

\* NewHealingProgress without the cap at 100.
NewHealingProgress_Unclamped(dt) ==
    IF InHealingPhase
    THEN healingProgress + HealingRate(dt)
    ELSE healingProgress

\* NewHealingProgress accumulating in every stage.
NewHealingProgress_AnyStage(dt) ==
    Min(healingProgress + HealingRate(dt), 100 * Unit)

NewHealingProgress(dt) ==
    IF InHealingPhase
    THEN Min(healingProgress + HealingRate(dt), 100 * Unit)
    ELSE healingProgress

\* The periodic log of updateBiologicalState; t is simulationTime in ticks.
NewLastLogTime(t) ==
    IF ((t \div 60) % 10 = 0) /\ ((t \div 600) # lastLogTime)
    THEN t \div 600
    ELSE lastLogTime

-----------------------------------------------------------------------------
(* checkStageTransitions: the stage it leaves, given the stage and levels
   it finds *)

\* StageAfterCheck with comedone -> papule taken at half the threshold.
StageAfterCheck_Early(stage, bacteria, inflammation, pus, healing) ==
    CASE stage = "incubation" ->
            IF /\ bacteria > BACTERIA_THRESHOLD * Unit
               /\ inflammation > INFLAMMATION_THRESHOLD * Unit
            THEN "comedone" ELSE stage
      [] stage = "comedone" ->
            IF inflammation > (INFLAMMATION_THRESHOLD * Unit) \div 2
            THEN "papule" ELSE stage
      [] stage = "papule" ->
            IF pus > PUS_THRESHOLD * Unit THEN "pustule" ELSE stage
      [] stage = "pustule" ->
            IF pus > RUPTURE_THRESHOLD * Unit THEN "rupture" ELSE stage
      [] stage = "rupture" ->
            IF healing > HEALING_THRESHOLD * Unit
            THEN "healing"
            ELSE IF \/ bacteria > BACTERIA_THRESHOLD * Unit
                    \/ inflammation > BACTERIA_THRESHOLD * Unit
                 THEN "worsening" ELSE stage
      [] stage = "healing" ->
            IF healing >= RESOLVED_THRESHOLD * Unit
            THEN "resolved" ELSE stage
      [] OTHER -> stage

\* StageAfterCheck with resolved starting the cycle again by itself.
StageAfterCheck_Relapse(stage, bacteria, inflammation, pus, healing) ==
    CASE stage = "incubation" ->
            IF /\ bacteria > BACTERIA_THRESHOLD * Unit
               /\ inflammation > INFLAMMATION_THRESHOLD * Unit
            THEN "comedone" ELSE stage
      [] stage = "comedone" ->
            IF inflammation > INFLAMMATION_THRESHOLD * Unit
            THEN "papule" ELSE stage
      [] stage = "papule" ->
            IF pus > PUS_THRESHOLD * Unit THEN "pustule" ELSE stage
      [] stage = "pustule" ->
            IF pus > RUPTURE_THRESHOLD * Unit THEN "rupture" ELSE stage
      [] stage = "rupture" ->
            IF healing > HEALING_THRESHOLD * Unit
            THEN "healing"
            ELSE IF \/ bacteria > BACTERIA_THRESHOLD * Unit
                    \/ inflammation > BACTERIA_THRESHOLD * Unit
                 THEN "worsening" ELSE stage
      [] stage = "healing" ->
            IF healing >= RESOLVED_THRESHOLD * Unit
            THEN "resolved" ELSE stage
      [] stage = "resolved" -> "incubation"
      [] OTHER -> stage

\* StageAfterCheck with the break of case pustule missing: the case of
\* rupture is evaluated in the same call.
StageAfterCheck_Fallthrough(stage, bacteria, inflammation, pus, healing) ==
    CASE stage = "incubation" ->
            IF /\ bacteria > BACTERIA_THRESHOLD * Unit
               /\ inflammation > INFLAMMATION_THRESHOLD * Unit
            THEN "comedone" ELSE stage
      [] stage = "comedone" ->
            IF inflammation > INFLAMMATION_THRESHOLD * Unit
            THEN "papule" ELSE stage
      [] stage = "papule" ->
            IF pus > PUS_THRESHOLD * Unit THEN "pustule" ELSE stage
      [] stage \in {"pustule", "rupture"} ->
            IF stage = "pustule" /\ ~(pus > RUPTURE_THRESHOLD * Unit)
            THEN stage
            ELSE IF healing > HEALING_THRESHOLD * Unit
                 THEN "healing"
                 ELSE IF \/ bacteria > BACTERIA_THRESHOLD * Unit
                         \/ inflammation > BACTERIA_THRESHOLD * Unit
                      THEN "worsening" ELSE "rupture"
      [] stage = "healing" ->
            IF healing >= RESOLVED_THRESHOLD * Unit
            THEN "resolved" ELSE stage
      [] OTHER -> stage

\* StageAfterCheck with rupture comparing inflammation with its own threshold.
StageAfterCheck_Threshold40(stage, bacteria, inflammation, pus, healing) ==
    CASE stage = "incubation" ->
            IF /\ bacteria > BACTERIA_THRESHOLD * Unit
               /\ inflammation > INFLAMMATION_THRESHOLD * Unit
            THEN "comedone" ELSE stage
      [] stage = "comedone" ->
            IF inflammation > INFLAMMATION_THRESHOLD * Unit
            THEN "papule" ELSE stage
      [] stage = "papule" ->
            IF pus > PUS_THRESHOLD * Unit THEN "pustule" ELSE stage
      [] stage = "pustule" ->
            IF pus > RUPTURE_THRESHOLD * Unit THEN "rupture" ELSE stage
      [] stage = "rupture" ->
            IF healing > HEALING_THRESHOLD * Unit
            THEN "healing"
            ELSE IF \/ bacteria > BACTERIA_THRESHOLD * Unit
                    \/ inflammation > INFLAMMATION_THRESHOLD * Unit
                 THEN "worsening" ELSE stage
      [] stage = "healing" ->
            IF healing >= RESOLVED_THRESHOLD * Unit
            THEN "resolved" ELSE stage
      [] OTHER -> stage

\* StageAfterCheck with healing -> resolved only above the threshold.
StageAfterCheck_StrictResolved(stage, bacteria, inflammation, pus, healing) ==
    CASE stage = "incubation" ->
            IF /\ bacteria > BACTERIA_THRESHOLD * Unit
               /\ inflammation > INFLAMMATION_THRESHOLD * Unit
            THEN "comedone" ELSE stage
      [] stage = "comedone" ->
            IF inflammation > INFLAMMATION_THRESHOLD * Unit
            THEN "papule" ELSE stage
      [] stage = "papule" ->
            IF pus > PUS_THRESHOLD * Unit THEN "pustule" ELSE stage
      [] stage = "pustule" ->
            IF pus > RUPTURE_THRESHOLD * Unit THEN "rupture" ELSE stage
      [] stage = "rupture" ->
            IF healing > HEALING_THRESHOLD * Unit
            THEN "healing"
            ELSE IF \/ bacteria > BACTERIA_THRESHOLD * Unit
                    \/ inflammation > BACTERIA_THRESHOLD * Unit
                 THEN "worsening" ELSE stage
      [] stage = "healing" ->
            IF healing > RESOLVED_THRESHOLD * Unit
            THEN "resolved" ELSE stage
      [] OTHER -> stage

StageAfterCheck(stage, bacteria, inflammation, pus, healing) ==
    CASE stage = "incubation" ->
            IF /\ bacteria > BACTERIA_THRESHOLD * Unit
               /\ inflammation > INFLAMMATION_THRESHOLD * Unit
            THEN "comedone" ELSE stage
      [] stage = "comedone" ->
            IF inflammation > INFLAMMATION_THRESHOLD * Unit
            THEN "papule" ELSE stage
      [] stage = "papule" ->
            IF pus > PUS_THRESHOLD * Unit THEN "pustule" ELSE stage
      [] stage = "pustule" ->
            IF pus > RUPTURE_THRESHOLD * Unit THEN "rupture" ELSE stage
      [] stage = "rupture" ->
            IF healing > HEALING_THRESHOLD * Unit
            THEN "healing"
            ELSE IF \/ bacteria > BACTERIA_THRESHOLD * Unit
                    \/ inflammation > BACTERIA_THRESHOLD * Unit
                 THEN "worsening" ELSE stage
      [] stage = "healing" ->
            IF healing >= RESOLVED_THRESHOLD * Unit
            THEN "resolved" ELSE stage
      [] OTHER -> stage

\* Every branch of checkStageTransitions that changes the stage then calls
\* this.updateStageVisuals(), which AcneSimulation does not define: the call
\* raises a TypeError after the stage has been assigned.
CheckRaises(before, after) == before # after

-----------------------------------------------------------------------------
(* update: updateParameters (time, updateDerivedRates,
   updateBiologicalState(1/60)), then checkStageTransitions *)

\* newTime is the value updateParameters leaves in simulationTime.  update
\* declares no parameter: the elapsed time its caller hands over is dropped.
UpdateAt(newTime) ==
    /\ LET dt        == TickDt
           newSebRate == NewSebumRate
           newBacRate == NewBacteriaGrowthRate
           bacteria  == NewBacteriaLevel(newBacRate, dt)
           raisedInf == RaisedInflammation(bacteria, dt)
           raisedNeu == RaisedNeutrophil(bacteria, raisedInf, dt)
           raisedPus == RaisedPus(raisedNeu, dt)
           inflammation == Healed(raisedInf, Lit(1, 1), dt)
           neutrophil   == Healed(raisedNeu, Lit(12, 10), dt)
           pus          == Healed(raisedPus, Lit(8, 10), dt)
           healing   == NewHealingProgress(dt)
           stageInt  == IF HealingShortcut(inflammation, pus)
                        THEN "resolved" ELSE simulationStage
           stageChk  == StageAfterCheck(stageInt, bacteria, inflammation, pus,
                                        healing)
       IN  /\ simulationTime' = newTime
           /\ sebumRate' = newSebRate
           /\ bacteriaGrowthRate' = newBacRate
           /\ baselineInflammation' = NewBaselineInflammation
           /\ humidityEffect' = NewHumidityEffect
           /\ currentMedicationLevel' = NewMedicationLevel
           /\ currentSebumLevel' = NewSebumLevel(newSebRate, dt)
           /\ currentBacteriaLevel' = bacteria
           /\ currentInflammationLevel' = inflammation
           /\ currentNeutrophilLevel' = neutrophil
           /\ currentPusLevel' = pus
           /\ healingProgress' = healing
           /\ lastLogTime' = NewLastLogTime(newTime)
           /\ simulationStage' = stageChk
           /\ exception' = IF CheckRaises(stageInt, stageChk)
                           THEN "TypeError" ELSE "none"
    /\ lastOp' = "update"
    /\ lastArg' = ""
    /\ lastValue' = Undefined
    /\ prevStage' = simulationStage
    /\ UNCHANGED <<params, progressionAccelerator, manualOps>>

\* The medication parameter of the second engine: the other end of the scale.
TwinMedication == 1000 - medicationValue

\* The same update in the second engine, as far as its bacteria go: the
\* engines share every parameter but medication, and neither is in incubation.
TwinUpdate(dt) ==
    twinBacteriaLevel' =
        IF twinBacteriaLevel = Undefined
        THEN Undefined
        ELSE BacteriaAfter(twinBacteriaLevel, TwinMedication,
                           BacteriaGrowthRateWith(TwinMedication), dt)

\* simulation.update(scaledDelta), as simulationLoop calls it.
EngineUpdate(dt) ==
    /\ UpdateAt(simulationTime + 1)
    /\ scaledDelta' = dt
    /\ TwinUpdate(TickDt)
    /\ UNCHANGED otherEngine

\* The same call with the bookkeeping of the main loop left aside.
UpdateGiven(dt) ==
    /\ EngineUpdate(dt)
    /\ UNCHANGED driver

\* update with two ticks added to simulationTime.
Update_DoubleTick ==
    /\ UpdateAt(simulationTime + 2)
    /\ scaledDelta' = TickDt
    /\ TwinUpdate(TickDt)
    /\ UNCHANGED <<driver, otherEngine>>

\* update on a frame of 1/60 s at speed 1.
Update == UpdateGiven(TickDt)

-----------------------------------------------------------------------------
(* setProgressionAccelerator(value) *)

\* setProgressionAccelerator without the upper bound of the clamp.
SetProgressionAccelerator_NoCeiling(value) ==
    /\ progressionAccelerator' = Max(Lit(1, 10), value)
    /\ exception' = "none"
    /\ Logged("setProgressionAccelerator", "", value)
    /\ UNCHANGED <<simulationTime, simulationStage, params, rates, levels,
                   currentMedicationLevel, lastLogTime, driver>>

\* setProgressionAccelerator storing the factor in the temperature parameter
\* as well, which both growth rates read.
SetProgressionAccelerator_Temperature(value) ==
    /\ progressionAccelerator' = Max(Lit(1, 10), Min(Lit(10, 1), value))
    /\ temperatureValue' = 1000
    /\ exception' = "none"
    /\ Logged("setProgressionAccelerator", "", value)
    /\ UNCHANGED <<simulationTime, simulationStage, sebumValue, bacteriaValue,
                   medicationValue, inflammationValue, healingValue,
                   humidityValue, frictionValue, rates, levels,
                   currentMedicationLevel, lastLogTime, driver>>

SetProgressionAccelerator(value) ==
    /\ progressionAccelerator' = Max(Lit(1, 10), Min(Lit(10, 1), value))
    /\ exception' = "none"
    /\ Logged("setProgressionAccelerator", "", value)
    /\ UNCHANGED <<simulationTime, simulationStage, params, rates, levels,
                   currentMedicationLevel, lastLogTime, driver>>

-----------------------------------------------------------------------------
(* advanceToNextStage *)

\* The cases of the switch, one operator each.
AdvanceFromIncubation ==
    /\ simulationStage' = "comedone"
    /\ currentSebumLevel' = SEBUM_THRESHOLD * Unit
    /\ UNCHANGED <<currentBacteriaLevel, currentInflammationLevel,
                   currentNeutrophilLevel, currentPusLevel, healingProgress>>

AdvanceFromComedone ==
    /\ simulationStage' = "papule"
    /\ currentInflammationLevel' = INFLAMMATION_THRESHOLD * Unit
    /\ currentBacteriaLevel' =
           Max(currentBacteriaLevel, (BACTERIA_THRESHOLD + 5) * Unit)
    /\ UNCHANGED <<currentSebumLevel, currentNeutrophilLevel, currentPusLevel,
                   healingProgress>>

\* AdvanceFromPapule setting pus above the threshold, as skipToNextStage does.
AdvanceFromPapule_Above ==
    /\ simulationStage' = "pustule"
    /\ currentPusLevel' = PUS_THRESHOLD * Unit + Lit(1, 10)
    /\ UNCHANGED <<currentSebumLevel, currentBacteriaLevel,
                   currentInflammationLevel, currentNeutrophilLevel,
                   healingProgress>>

AdvanceFromPapule ==
    /\ simulationStage' = "pustule"
    /\ currentPusLevel' = PUS_THRESHOLD * Unit
    /\ UNCHANGED <<currentSebumLevel, currentBacteriaLevel,
                   currentInflammationLevel, currentNeutrophilLevel,
                   healingProgress>>

\* AdvanceFromPustule without the reset of healingProgress.
AdvanceFromPustule_KeepProgress ==
    /\ simulationStage' = "rupture"
    /\ currentPusLevel' = RUPTURE_THRESHOLD * Unit
    /\ UNCHANGED <<currentSebumLevel, currentBacteriaLevel,
                   currentInflammationLevel, currentNeutrophilLevel,
                   healingProgress>>

AdvanceFromPustule ==
    /\ simulationStage' = "rupture"
    /\ currentPusLevel' = RUPTURE_THRESHOLD * Unit
    /\ healingProgress' = 0
    /\ UNCHANGED <<currentSebumLevel, currentBacteriaLevel,
                   currentInflammationLevel, currentNeutrophilLevel>>

\* AdvanceFromRupture taking the other branch out of rupture.
AdvanceFromRupture_Worsening ==
    /\ simulationStage' = "worsening"
    /\ healingProgress' = HEALING_THRESHOLD * Unit
    /\ UNCHANGED <<currentSebumLevel, currentBacteriaLevel,
                   currentInflammationLevel, currentNeutrophilLevel,
                   currentPusLevel>>

AdvanceFromRupture ==
    /\ simulationStage' = "healing"
    /\ healingProgress' = HEALING_THRESHOLD * Unit
    /\ UNCHANGED <<currentSebumLevel, currentBacteriaLevel,
                   currentInflammationLevel, currentNeutrophilLevel,
                   currentPusLevel>>

AdvanceFromHealing ==
    /\ simulationStage' = "resolved"
    /\ healingProgress' = RESOLVED_THRESHOLD * Unit
    /\ currentInflammationLevel' = 0
    /\ currentPusLevel' = 0
    /\ UNCHANGED <<currentSebumLevel, currentBacteriaLevel,
                   currentNeutrophilLevel>>

\* AdvanceFromResolved entering a stage outside the eight.
AdvanceFromResolved_Restart ==
    /\ simulationStage' = "restart"
    /\ currentSebumLevel' = 20 * Unit
    /\ currentBacteriaLevel' = 0
    /\ currentInflammationLevel' = 0
    /\ currentNeutrophilLevel' = 0
    /\ currentPusLevel' = 0
    /\ healingProgress' = 0

AdvanceFromResolved ==
    /\ simulationStage' = "incubation"
    /\ currentSebumLevel' = 20 * Unit
    /\ currentBacteriaLevel' = 0
    /\ currentInflammationLevel' = 0
    /\ currentNeutrophilLevel' = 0
    /\ currentPusLevel' = 0
    /\ healingProgress' = 0

\* advanceToNextStage with a case for worsening that goes on to healing.
AdvanceToNextStage_FromWorsening ==
    /\ CASE simulationStage = "incubation" -> AdvanceFromIncubation
         [] simulationStage = "comedone"   -> AdvanceFromComedone
         [] simulationStage = "papule"     -> AdvanceFromPapule
         [] simulationStage = "pustule"    -> AdvanceFromPustule
         [] simulationStage \in {"rupture", "worsening"} -> AdvanceFromRupture
         [] simulationStage = "healing"    -> AdvanceFromHealing
         [] simulationStage = "resolved"   -> AdvanceFromResolved
         [] OTHER -> UNCHANGED <<simulationStage, levels>>
    /\ exception' = "none"
    /\ Called("advanceToNextStage")
    /\ UNCHANGED <<simulationTime, params, rates, currentMedicationLevel,
                   progressionAccelerator, lastLogTime, driver>>

AdvanceToNextStage ==
    /\ CASE simulationStage = "incubation" -> AdvanceFromIncubation
         [] simulationStage = "comedone"   -> AdvanceFromComedone
         [] simulationStage = "papule"     -> AdvanceFromPapule
         [] simulationStage = "pustule"    -> AdvanceFromPustule
         [] simulationStage = "rupture"    -> AdvanceFromRupture
         [] simulationStage = "healing"    -> AdvanceFromHealing
         [] simulationStage = "resolved"   -> AdvanceFromResolved
         [] OTHER -> UNCHANGED <<simulationStage, levels>>
    /\ exception' = "none"
    /\ Called("advanceToNextStage")
    /\ UNCHANGED <<simulationTime, params, rates, currentMedicationLevel,
                   progressionAccelerator, lastLogTime, driver>>

-----------------------------------------------------------------------------
(* skipToNextStage; this.onStageChange is never assigned, so the trailing
   notification is skipped *)

\* skipToNextStage wrapping from resolved to incubation, as
\* advanceToNextStage does.
SkipToNextStage_Wraps ==
    /\ CASE simulationStage = "incubation" ->
              /\ currentSebumLevel' = SEBUM_THRESHOLD * Unit + Lit(1, 10)
              /\ currentBacteriaLevel' = 15 * Unit
              /\ currentInflammationLevel' = 5 * Unit
              /\ simulationStage' = "comedone"
              /\ UNCHANGED <<currentNeutrophilLevel, currentPusLevel,
                             healingProgress>>
         [] simulationStage = "comedone" ->
              /\ currentSebumLevel' = 85 * Unit
              /\ currentBacteriaLevel' = BACTERIA_THRESHOLD * Unit + Lit(1, 10)
              /\ currentInflammationLevel' =
                     INFLAMMATION_THRESHOLD * Unit + Lit(1, 10)
              /\ currentNeutrophilLevel' = 20 * Unit
              /\ simulationStage' = "papule"
              /\ UNCHANGED <<currentPusLevel, healingProgress>>
         [] simulationStage = "papule" ->
              /\ currentSebumLevel' = 90 * Unit
              /\ currentBacteriaLevel' = 75 * Unit
              /\ currentInflammationLevel' = 70 * Unit
              /\ currentNeutrophilLevel' = 60 * Unit
              /\ currentPusLevel' = PUS_THRESHOLD * Unit + Lit(1, 10)
              /\ simulationStage' = "pustule"
              /\ UNCHANGED healingProgress
         [] simulationStage = "pustule" ->
              /\ currentSebumLevel' = 85 * Unit
              /\ currentBacteriaLevel' = 85 * Unit
              /\ currentInflammationLevel' = 85 * Unit
              /\ currentNeutrophilLevel' = 90 * Unit
              /\ currentPusLevel' = RUPTURE_THRESHOLD * Unit + Lit(1, 10)
              /\ simulationStage' = "rupture"
              /\ UNCHANGED healingProgress
         [] simulationStage = "rupture" ->
              /\ currentSebumLevel' = 40 * Unit
              /\ currentBacteriaLevel' = 95 * Unit
              /\ currentInflammationLevel' = 100 * Unit
              /\ currentNeutrophilLevel' = 100 * Unit
              /\ currentPusLevel' = 60 * Unit
              /\ healingProgress' = HEALING_THRESHOLD * Unit + Lit(1, 10)
              /\ simulationStage' = "healing"
         [] simulationStage = "healing" ->
              /\ currentSebumLevel' = 30 * Unit
              /\ currentBacteriaLevel' = 30 * Unit
              /\ currentInflammationLevel' = 40 * Unit
              /\ currentNeutrophilLevel' = 30 * Unit
              /\ currentPusLevel' = 10 * Unit
              /\ healingProgress' = RESOLVED_THRESHOLD * Unit + Lit(1, 10)
              /\ simulationStage' = "resolved"
         [] simulationStage = "resolved" ->
              /\ currentSebumLevel' = 20 * Unit
              /\ currentBacteriaLevel' = 10 * Unit
              /\ currentInflammationLevel' = 15 * Unit
              /\ currentNeutrophilLevel' = 5 * Unit
              /\ currentPusLevel' = 0
              /\ healingProgress' = 100 * Unit
              /\ simulationStage' = "incubation"
         [] OTHER ->
              UNCHANGED <<simulationStage, levels>>
    /\ exception' = "none"
    /\ Called("skipToNextStage")
    /\ UNCHANGED <<simulationTime, params, rates, currentMedicationLevel,
                   progressionAccelerator, lastLogTime, driver>>

SkipToNextStage ==
    /\ CASE simulationStage = "incubation" ->
              /\ currentSebumLevel' = SEBUM_THRESHOLD * Unit + Lit(1, 10)
              /\ currentBacteriaLevel' = 15 * Unit
              /\ currentInflammationLevel' = 5 * Unit
              /\ simulationStage' = "comedone"
              /\ UNCHANGED <<currentNeutrophilLevel, currentPusLevel,
                             healingProgress>>
         [] simulationStage = "comedone" ->
              /\ currentSebumLevel' = 85 * Unit
              /\ currentBacteriaLevel' = BACTERIA_THRESHOLD * Unit + Lit(1, 10)
              /\ currentInflammationLevel' =
                     INFLAMMATION_THRESHOLD * Unit + Lit(1, 10)
              /\ currentNeutrophilLevel' = 20 * Unit
              /\ simulationStage' = "papule"
              /\ UNCHANGED <<currentPusLevel, healingProgress>>
         [] simulationStage = "papule" ->
              /\ currentSebumLevel' = 90 * Unit
              /\ currentBacteriaLevel' = 75 * Unit
              /\ currentInflammationLevel' = 70 * Unit
              /\ currentNeutrophilLevel' = 60 * Unit
              /\ currentPusLevel' = PUS_THRESHOLD * Unit + Lit(1, 10)
              /\ simulationStage' = "pustule"
              /\ UNCHANGED healingProgress
         [] simulationStage = "pustule" ->
              /\ currentSebumLevel' = 85 * Unit
              /\ currentBacteriaLevel' = 85 * Unit
              /\ currentInflammationLevel' = 85 * Unit
              /\ currentNeutrophilLevel' = 90 * Unit
              /\ currentPusLevel' = RUPTURE_THRESHOLD * Unit + Lit(1, 10)
              /\ simulationStage' = "rupture"
              /\ UNCHANGED healingProgress
         [] simulationStage = "rupture" ->
              /\ currentSebumLevel' = 40 * Unit
              /\ currentBacteriaLevel' = 95 * Unit
              /\ currentInflammationLevel' = 100 * Unit
              /\ currentNeutrophilLevel' = 100 * Unit
              /\ currentPusLevel' = 60 * Unit
              /\ healingProgress' = HEALING_THRESHOLD * Unit + Lit(1, 10)
              /\ simulationStage' = "healing"
         [] simulationStage = "healing" ->
              /\ currentSebumLevel' = 30 * Unit
              /\ currentBacteriaLevel' = 30 * Unit
              /\ currentInflammationLevel' = 40 * Unit
              /\ currentNeutrophilLevel' = 30 * Unit
              /\ currentPusLevel' = 10 * Unit
              /\ healingProgress' = RESOLVED_THRESHOLD * Unit + Lit(1, 10)
              /\ simulationStage' = "resolved"
         [] simulationStage = "resolved" ->
              /\ currentSebumLevel' = 20 * Unit
              /\ currentBacteriaLevel' = 10 * Unit
              /\ currentInflammationLevel' = 15 * Unit
              /\ currentNeutrophilLevel' = 5 * Unit
              /\ currentPusLevel' = 0
              /\ healingProgress' = 100 * Unit
              /\ UNCHANGED simulationStage
         [] OTHER ->
              UNCHANGED <<simulationStage, levels>>
    /\ exception' = "none"
    /\ Called("skipToNextStage")
    /\ UNCHANGED <<simulationTime, params, rates, currentMedicationLevel,
                   progressionAccelerator, lastLogTime, driver>>

-----------------------------------------------------------------------------
(* setStage(stage) and resetStageProgress *)

\* SeededLevel at half the threshold.
SeededLevel_Half(threshold) == FMul(threshold * Unit, Lit(5, 10))

\* THRESHOLD * 0.8, the level resetStageProgress seeds.
SeededLevel(threshold) == FMul(threshold * Unit, Lit(8, 10))

\* resetStageProgress clearing healingProgress when it seeds a pustule.
ResetStageProgress_ClearsHealing(stage) ==
    CASE stage = "incubation" ->
           /\ currentBacteriaLevel' = 0
           /\ currentInflammationLevel' = 0
           /\ UNCHANGED <<currentSebumLevel, currentNeutrophilLevel,
                          currentPusLevel, healingProgress>>
      [] stage \in {"comedone", "worsening"} ->
           /\ currentBacteriaLevel' = SeededLevel(BACTERIA_THRESHOLD)
           /\ currentInflammationLevel' = SeededLevel(INFLAMMATION_THRESHOLD)
           /\ UNCHANGED <<currentSebumLevel, currentNeutrophilLevel,
                          currentPusLevel, healingProgress>>
      [] stage = "papule" ->
           /\ currentInflammationLevel' = SeededLevel(INFLAMMATION_THRESHOLD)
           /\ currentPusLevel' = 0
           /\ UNCHANGED <<currentSebumLevel, currentBacteriaLevel,
                          currentNeutrophilLevel, healingProgress>>
      [] stage = "pustule" ->
           /\ currentPusLevel' = SeededLevel(PUS_THRESHOLD)
           /\ healingProgress' = 0
           /\ UNCHANGED <<currentSebumLevel, currentBacteriaLevel,
                          currentInflammationLevel, currentNeutrophilLevel>>
      [] stage = "rupture" ->
           /\ currentPusLevel' = SeededLevel(RUPTURE_THRESHOLD)
           /\ healingProgress' = 0
           /\ UNCHANGED <<currentSebumLevel, currentBacteriaLevel,
                          currentInflammationLevel, currentNeutrophilLevel>>
      [] stage = "healing" ->
           /\ healingProgress' = SeededLevel(HEALING_THRESHOLD)
           /\ UNCHANGED <<currentSebumLevel, currentBacteriaLevel,
                          currentInflammationLevel, currentNeutrophilLevel,
                          currentPusLevel>>
      [] stage = "resolved" ->
           /\ healingProgress' = 100 * Unit
           /\ UNCHANGED <<currentSebumLevel, currentBacteriaLevel,
                          currentInflammationLevel, currentNeutrophilLevel,
                          currentPusLevel>>

\* resetStageProgress for the stage setStage has just assigned.
ResetStageProgress(stage) ==
    CASE stage = "incubation" ->
           /\ currentBacteriaLevel' = 0
           /\ currentInflammationLevel' = 0
           /\ UNCHANGED <<currentSebumLevel, currentNeutrophilLevel,
                          currentPusLevel, healingProgress>>
      [] stage \in {"comedone", "worsening"} ->
           /\ currentBacteriaLevel' = SeededLevel(BACTERIA_THRESHOLD)
           /\ currentInflammationLevel' = SeededLevel(INFLAMMATION_THRESHOLD)
           /\ UNCHANGED <<currentSebumLevel, currentNeutrophilLevel,
                          currentPusLevel, healingProgress>>
      [] stage = "papule" ->
           /\ currentInflammationLevel' = SeededLevel(INFLAMMATION_THRESHOLD)
           /\ currentPusLevel' = 0
           /\ UNCHANGED <<currentSebumLevel, currentBacteriaLevel,
                          currentNeutrophilLevel, healingProgress>>
      [] stage = "pustule" ->
           /\ currentPusLevel' = SeededLevel(PUS_THRESHOLD)
           /\ UNCHANGED <<currentSebumLevel, currentBacteriaLevel,
                          currentInflammationLevel, currentNeutrophilLevel,
                          healingProgress>>
      [] stage = "rupture" ->
           /\ currentPusLevel' = SeededLevel(RUPTURE_THRESHOLD)
           /\ healingProgress' = 0
           /\ UNCHANGED <<currentSebumLevel, currentBacteriaLevel,
                          currentInflammationLevel, currentNeutrophilLevel>>
      [] stage = "healing" ->
           /\ healingProgress' = SeededLevel(HEALING_THRESHOLD)
           /\ UNCHANGED <<currentSebumLevel, currentBacteriaLevel,
                          currentInflammationLevel, currentNeutrophilLevel,
                          currentPusLevel>>
      [] stage = "resolved" ->
           /\ healingProgress' = 100 * Unit
           /\ UNCHANGED <<currentSebumLevel, currentBacteriaLevel,
                          currentInflammationLevel, currentNeutrophilLevel,
                          currentPusLevel>>

\* setStage without the return that follows the validation: an unknown name
\* is assigned, and no case of resetStageProgress matches it.
SetStage_NoReturn(stage) ==
    /\ simulationStage' = stage
    /\ IF stage \notin validStages
       THEN UNCHANGED levels
       ELSE ResetStageProgress(stage)
    /\ exception' = "none"
    /\ CalledWith("setStage", stage)
    /\ UNCHANGED <<simulationTime, params, rates, currentMedicationLevel,
                   progressionAccelerator, lastLogTime, driver>>

\* setStage calling resetStageProgress before it assigns the stage.
SetStage_ResetFirst(stage) ==
    /\ IF stage \notin validStages
       THEN UNCHANGED <<simulationStage, levels>>
       ELSE /\ simulationStage' = stage
            /\ ResetStageProgress(simulationStage)
    /\ exception' = "none"
    /\ CalledWith("setStage", stage)
    /\ UNCHANGED <<simulationTime, params, rates, currentMedicationLevel,
                   progressionAccelerator, lastLogTime, driver>>

SetStage(stage) ==
    /\ IF stage \notin validStages
       THEN UNCHANGED <<simulationStage, levels>>
       ELSE /\ simulationStage' = stage
            /\ ResetStageProgress(stage)
    /\ exception' = "none"
    /\ CalledWith("setStage", stage)
    /\ UNCHANGED <<simulationTime, params, rates, currentMedicationLevel,
                   progressionAccelerator, lastLogTime, driver>>

-----------------------------------------------------------------------------
(* main.js: pauseSimulation and resetSimulation *)

\* pauseSimulation, as a step of the handlers that call it.
\* pauseSimulation leaving the requested callback in place.
PauseSimulation_NoCancel ==
    IF isSimulationRunning
    THEN isSimulationRunning' = FALSE
         /\ UNCHANGED <<frameRequested, scheduledFrames>>
    ELSE UNCHANGED driver

\* cancelAnimationFrame(animationFrameId) removes the callback the id names,
\* if that one is still scheduled.
PauseSimulation ==
    IF isSimulationRunning
    THEN /\ isSimulationRunning' = FALSE
         /\ frameRequested' = FALSE
         /\ scheduledFrames' = IF frameRequested THEN scheduledFrames - 1
                                ELSE scheduledFrames
    ELSE UNCHANGED driver

StartSimulation ==
    IF ~isSimulationRunning
    THEN /\ isSimulationRunning' = TRUE
         /\ frameRequested' = TRUE
         /\ scheduledFrames' = scheduledFrames + 1
    ELSE UNCHANGED driver

\* The handler of the pause button and of the space bar.  The engine is not
\* touched.
ToggleSimulation ==
    /\ IF isSimulationRunning THEN PauseSimulation ELSE StartSimulation
    /\ UNCHANGED <<simulationTime, simulationStage, params, rates, levels,
                   currentMedicationLevel, progressionAccelerator, lastLogTime,
                   exception, lastOp, lastArg, lastValue, scaledDelta,
                   prevStage, manualOps, twinBacteriaLevel, otherEngine>>

\* The browser runs the oldest scheduled simulationLoop callback; the one
\* animationFrameId names is the newest.  A paused loop returns at once.  A
\* running one calls update and requests the next callback, unless update
\* has raised: then the handler ends before the request.
SimulationLoop ==
    /\ scheduledFrames > 0
    /\ IF isSimulationRunning
       THEN /\ \E dt \in DtInputs : EngineUpdate(dt)
            /\ isSimulationRunning' = isSimulationRunning
            /\ IF exception' = "none"
               THEN /\ scheduledFrames' = scheduledFrames
                    /\ frameRequested' = TRUE
               ELSE /\ scheduledFrames' = scheduledFrames - 1
                    /\ frameRequested' = (frameRequested /\ scheduledFrames > 1)
       ELSE /\ scheduledFrames' = scheduledFrames - 1
            /\ frameRequested' = (frameRequested /\ scheduledFrames > 1)
            /\ UNCHANGED <<simulationTime, simulationStage, params, rates,
                           levels, currentMedicationLevel,
                           progressionAccelerator, lastLogTime, exception,
                           lastOp, lastArg, lastValue, scaledDelta, prevStage,
                           manualOps, isSimulationRunning, twinBacteriaLevel,
                           otherEngine>>

\* resetSimulation pauses and then calls simulation.reset(); AcneSimulation
\* defines no method reset, so the call raises a TypeError and the handler
\* ends there, with the engine as it was.
ResetSimulation ==
    /\ PauseSimulation
    /\ exception' = "TypeError"
    /\ Called("reset")
    /\ UNCHANGED <<simulationTime, simulationStage, params, rates, levels,
                   currentMedicationLevel, progressionAccelerator, lastLogTime>>

\* handleSliderChange for one of the eight parameter sliders: every case of
\* its switch calls a setter (setSebumParam ... setFrictionParam) that
\* AcneSimulation does not define, so the call raises a TypeError and the
\* handler ends there, with the engine as it was.
HandleSliderChange(sliderId, value) ==
    /\ exception' = "TypeError"
    /\ Logged("handleSliderChange", sliderId, value)
    /\ UNCHANGED <<simulationTime, simulationStage, params, rates, levels,
                   currentMedicationLevel, progressionAccelerator, lastLogTime,
                   driver>>

-----------------------------------------------------------------------------
(* The engine under every interleaving of its operations, up to MaxTicks
   updates and MaxManual other calls *)

Next ==
    \/ simulationTime < MaxTicks /\ Update /\ UNCHANGED pending
    \/ manualOps < MaxManual /\ UNCHANGED pending
         /\ \E stage \in StageInputs : SetStage(stage)
    \/ manualOps < MaxManual /\ AdvanceToNextStage /\ UNCHANGED pending
    \/ manualOps < MaxManual /\ SkipToNextStage /\ UNCHANGED pending
    \/ manualOps < MaxManual /\ UNCHANGED pending
         /\ \E value \in AcceleratorInputs : SetProgressionAccelerator(value)
    \/ manualOps < MaxManual /\ ResetSimulation /\ UNCHANGED pending

Spec == Init /\ [][Next]_vars

-----------------------------------------------------------------------------
(* Long runs: the user interface first makes the calls of one script, and
   from then on only update is called, up to MaxRunTicks times *)

CallSetStage(stage) == <<"setStage", stage>>
CallAdvance         == <<"advanceToNextStage", "">>
CallSkip            == <<"skipToNextStage", "">>
CallAccelerate      == <<"setProgressionAccelerator", "20">>

Repeat(call, n) == [i \in 1..n |-> call]

StageScripts ==
    {<<>>}
    \cup { <<CallSetStage(a)>> : a \in validStages }
    \cup { <<CallSetStage(a), CallSetStage(b)>> : a, b \in validStages }
    \cup { Repeat(CallSkip, n) : n \in 1..7 }
    \cup { Repeat(CallAdvance, n) : n \in 1..8 }
    \cup { <<CallSetStage("resolved"), CallSetStage("pustule"), CallSkip>>,
           <<CallSkip, CallSkip, CallSetStage("rupture")>>,
           <<CallSetStage("rupture"), CallSetStage("comedone"), CallAdvance>> }

Scripts == StageScripts \cup { <<CallAccelerate>> \o s : s \in StageScripts }

\* The slow half-speed setting of the accelerator.
CallSlow == <<"setProgressionAccelerator", "0.5">>

\* The user lets the loop run until the display shows the reading.
CallAwait(reading) == <<"await", reading>>

Awaited(reading) ==
    CASE reading = "inflammation > 40" ->
            currentInflammationLevel > INFLAMMATION_THRESHOLD * Unit
      [] reading = "inflammation > 60" ->
            currentInflammationLevel > BACTERIA_THRESHOLD * Unit
      [] reading = "left rupture" -> simulationStage # "rupture"
      [] reading = "sebum >= 100" -> currentSebumLevel >= 100 * Unit
      [] OTHER -> TRUE

\* Full medication and inflammation sensitivity, no healing, cold skin: at
\* half speed inflammation rises faster than bacteria.
EdgeParams == <<500, 1000, 1000, 1000, 0, 0, 500, 0>>

\* Runs that put the engine on the boundaries of the rupture and healing
\* rows: inflammation between the two thresholds with few bacteria,
\* inflammation above 60 with few bacteria, healingProgress exactly 30 in
\* rupture, and healingProgress exactly 80 in healing.
EdgeScripts ==
    { <<CallSlow, CallSetStage("comedone"), CallAwait("inflammation > 40"),
        CallSetStage("rupture"), CallAwait("left rupture")>>,
      <<CallSlow, CallSetStage("comedone"), CallAwait("inflammation > 60"),
        CallSetStage("rupture"), CallAwait("left rupture")>>,
      Repeat(CallAdvance, 5) \o <<CallSetStage("pustule"), CallSkip>>,
      Repeat(CallAdvance, 6) \o <<CallSetStage("pustule"), CallSkip>> }

\* Every parameter at the top of the scale but medication.
FullParams == <<1000, 1000, 0, 1000, 1000, 1000, 1000, 1000>>

\* A run at ten times the speed from the sebum level 90 of a skipped-to
\* pustule, kept going until sebum is full.
FullScripts ==
    { <<CallAccelerate, CallSkip, CallSkip, CallSkip,
        CallAwait("sebum >= 100")>> }

RunInit ==
    /\ ConstructedState
    /\ \/ /\ pending \in Scripts
          /\ \E p \in RunParams : ParamsAre(p)
       \/ /\ pending \in EdgeScripts
          /\ ParamsAre(EdgeParams)
       \/ /\ pending \in FullScripts
          /\ ParamsAre(FullParams)

RunNext ==
    \/ /\ pending # <<>> /\ Head(pending)[1] = "setStage"
       /\ SetStage(Head(pending)[2])
       /\ pending' = Tail(pending)
    \/ /\ pending # <<>> /\ Head(pending) = CallAdvance
       /\ AdvanceToNextStage
       /\ pending' = Tail(pending)
    \/ /\ pending # <<>> /\ Head(pending) = CallSkip
       /\ SkipToNextStage
       /\ pending' = Tail(pending)
    \/ /\ pending # <<>> /\ Head(pending) = CallAccelerate
       /\ SetProgressionAccelerator(Lit(20, 1))
       /\ pending' = Tail(pending)
    \/ /\ pending # <<>> /\ Head(pending) = CallSlow
       /\ SetProgressionAccelerator(Lit(1, 2))
       /\ pending' = Tail(pending)
    \/ /\ pending # <<>> /\ Head(pending)[1] = "await"
       /\ ~Awaited(Head(pending)[2])
       /\ simulationTime < MaxWaitTicks
       /\ Update
       /\ UNCHANGED pending
    \/ /\ pending # <<>> /\ Head(pending)[1] = "await"
       /\ Awaited(Head(pending)[2])
       /\ Len(pending) > 1
       /\ Head(Tail(pending))[1] = "setStage"
       /\ SetStage(Head(Tail(pending))[2])
       /\ pending' = Tail(Tail(pending))
    \/ /\ pending = <<>> /\ simulationTime < MaxRunTicks
       /\ Update
       /\ UNCHANGED pending

RunSpec == RunInit /\ [][RunNext]_vars

-----------------------------------------------------------------------------
(* Two engines: a second engine is constructed with the state of the first
   and the opposite medication parameter, and both are updated together.  Of
   the second engine only the bacteria level is kept. *)

\* Few bacteria (200), all else at the defaults, with and without medication.
TwinParams == { <<500, 200, 1000, 500, 500, 500, 500, 0>>,
                <<500, 200, 0, 500, 500, 500, 500, 0>> }

\* The bacteria levels at which the second engine is made: above 0, up to 0.05.
ForkLevels == 1..Lit(5, 100)

Fork ==
    /\ twinBacteriaLevel = Undefined
    /\ simulationStage # "incubation"
    /\ currentBacteriaLevel \in ForkLevels
    /\ twinBacteriaLevel' = currentBacteriaLevel
    /\ lastOp' = "constructor"
    /\ lastArg' = ""
    /\ lastValue' = Undefined
    /\ prevStage' = simulationStage
    /\ UNCHANGED <<simulationTime, simulationStage, params, rates, levels,
                   currentMedicationLevel, progressionAccelerator, lastLogTime,
                   exception, scaledDelta, manualOps, driver, otherEngine>>

TwinInit ==
    /\ ConstructedState
    /\ \E stage \in validStages \ {"incubation"} :
           pending = <<CallSetStage(stage)>>
    /\ \E p \in TwinParams : ParamsAre(p)

TwinNext ==
    \/ /\ pending # <<>>
       /\ SetStage(Head(pending)[2])
       /\ pending' = Tail(pending)
    \/ /\ pending = <<>>
       /\ Fork
       /\ UNCHANGED pending
    \/ /\ pending = <<>> /\ simulationTime < MaxTwinTicks
       /\ Update
       /\ UNCHANGED pending

TwinSpec == TwinInit /\ [][TwinNext]_vars

-----------------------------------------------------------------------------
(* The calls other than update alone, up to MaxCalls of them, on an engine
   with the constructor's parameters (none of these calls reads them) *)

ManualNext ==
    \/ manualOps < MaxCalls /\ UNCHANGED pending
         /\ \E stage \in StageInputs : SetStage(stage)
    \/ manualOps < MaxCalls /\ AdvanceToNextStage /\ UNCHANGED pending
    \/ manualOps < MaxCalls /\ SkipToNextStage /\ UNCHANGED pending
    \/ manualOps < MaxCalls /\ UNCHANGED pending
         /\ \E value \in AcceleratorInputs : SetProgressionAccelerator(value)
    \/ manualOps < MaxCalls /\ ResetSimulation /\ UNCHANGED pending

ManualSpec == InitDefaults /\ [][ManualNext]_vars

-----------------------------------------------------------------------------
(* The constructed engine with its own parameters under update alone *)

DefaultsNext == simulationTime < MaxDefaultTicks /\ Update /\ UNCHANGED pending

DefaultsSpec == InitDefaults /\ [][DefaultsNext]_vars

-----------------------------------------------------------------------------
(* update alone on frames of varying elapsed time, as simulationLoop calls
   it under the speed multipliers 1, 2 and 3 *)

DtNext ==
    /\ simulationTime < MaxDtTicks
    /\ \E dt \in DtInputs : UpdateGiven(dt)
    /\ UNCHANGED pending

DtSpec == Init /\ [][DtNext]_vars

-----------------------------------------------------------------------------
(* The parameter sliders moved between updates, on the constructed engine *)

UiNext ==
    \/ /\ manualOps < MaxUiCalls
       /\ \E sliderId \in SliderIds, value \in SliderInputs :
              HandleSliderChange(sliderId, value)
       /\ UNCHANGED pending
    \/ simulationTime < MaxUiTicks /\ Update /\ UNCHANGED pending

UiSpec == InitDefaults /\ [][UiNext]_vars

-----------------------------------------------------------------------------
(* update called for ever on a constructed engine with medication 0 and a
   positive bacteria parameter.  The clock is kept modulo LiveClock, which
   keeps the state space finite; nothing but the periodic log reads it. *)

LiveInit ==
    /\ ConstructedState
    /\ pending = <<>>
    /\ \E p \in LiveParams : ParamsAre(p)

LiveNext ==
    /\ UpdateAt((simulationTime + 1) % LiveClock)
    /\ scaledDelta' = TickDt
    /\ UNCHANGED <<twinBacteriaLevel, driver, otherEngine>>
    /\ UNCHANGED pending

LiveSpec == LiveInit /\ [][LiveNext]_vars /\ WF_vars(LiveNext)

-----------------------------------------------------------------------------
(* Two AcneSimulation objects that differ in friction and humidity and
   receive the same calls.  The variables hold the fields of one object and
   otherEngine those of the other; the objects take turns: the first makes a
   call, the second makes the same call. *)

\* Friction and humidity of the second object (the first has 0 and 500).
PairFriction == 1000
PairHumidity == 1000

\* The fields of the object the variables hold.
EngineFields(name) ==
    [name |-> name, time |-> simulationTime, stage |-> simulationStage,
     params |-> params, rates |-> rates, levels |-> levels,
     med |-> currentMedicationLevel, acc |-> progressionAccelerator,
     log |-> lastLogTime, exc |-> exception, op |-> lastOp, arg |-> lastArg,
     value |-> lastValue, delta |-> scaledDelta, prev |-> prevStage,
     ops |-> manualOps]

Other == otherEngine[1]

\* Calls made so far on the object the variables hold, and on the other.
CallsHere  == manualOps + simulationTime
CallsThere == Other.ops + Other.time

\* new AcneSimulation() a second time, with the two parameter fields changed.
ConstructOther ==
    /\ otherEngine = <<>>
    /\ otherEngine' =
          <<[EngineFields("second") EXCEPT
                !.params = <<sebumValue, bacteriaValue, medicationValue,
                             inflammationValue, healingValue,
                             temperatureValue, PairHumidity, PairFriction>>]>>
    /\ UNCHANGED <<simulationTime, simulationStage, params, rates, levels,
                   currentMedicationLevel, progressionAccelerator, lastLogTime,
                   exception, lastOp, lastArg, lastValue, scaledDelta,
                   prevStage, manualOps, driver, twinBacteriaLevel>>

\* The turn passes to the other object.
SwapEngines ==
    /\ otherEngine' =
          <<EngineFields(IF Other.name = "second" THEN "first" ELSE "second")>>
    /\ simulationTime' = Other.time
    /\ simulationStage' = Other.stage
    /\ sebumValue' = Other.params[1]
    /\ bacteriaValue' = Other.params[2]
    /\ medicationValue' = Other.params[3]
    /\ inflammationValue' = Other.params[4]
    /\ healingValue' = Other.params[5]
    /\ temperatureValue' = Other.params[6]
    /\ humidityValue' = Other.params[7]
    /\ frictionValue' = Other.params[8]
    /\ sebumRate' = Other.rates[1]
    /\ bacteriaGrowthRate' = Other.rates[2]
    /\ baselineInflammation' = Other.rates[3]
    /\ humidityEffect' = Other.rates[4]
    /\ currentSebumLevel' = Other.levels[1]
    /\ currentBacteriaLevel' = Other.levels[2]
    /\ currentInflammationLevel' = Other.levels[3]
    /\ currentNeutrophilLevel' = Other.levels[4]
    /\ currentPusLevel' = Other.levels[5]
    /\ healingProgress' = Other.levels[6]
    /\ currentMedicationLevel' = Other.med
    /\ progressionAccelerator' = Other.acc
    /\ lastLogTime' = Other.log
    /\ exception' = Other.exc
    /\ lastOp' = Other.op
    /\ lastArg' = Other.arg
    /\ lastValue' = Other.value
    /\ scaledDelta' = Other.delta
    /\ prevStage' = Other.prev
    /\ manualOps' = Other.ops
    /\ UNCHANGED <<driver, twinBacteriaLevel>>

PairNext ==
    \/ ConstructOther /\ UNCHANGED pending
    \/ /\ otherEngine # <<>> /\ Other.name = "second"
       /\ CallsHere = CallsThere /\ CallsHere < MaxPairOps
       /\ \/ Update
          \/ \E stage \in validStages : SetStage(stage)
          \/ AdvanceToNextStage
          \/ SkipToNextStage
       /\ UNCHANGED pending
    \/ /\ otherEngine # <<>>
       /\ \/ Other.name = "second" /\ CallsHere = CallsThere + 1
          \/ Other.name = "first" /\ CallsHere = CallsThere
       /\ SwapEngines
       /\ UNCHANGED pending
    \/ /\ otherEngine # <<>> /\ Other.name = "first"
       /\ CallsHere < CallsThere
       /\ CASE Other.op = "update" -> Update
            [] Other.op = "setStage" -> SetStage(Other.arg)
            [] Other.op = "advanceToNextStage" -> AdvanceToNextStage
            [] Other.op = "skipToNextStage" -> SkipToNextStage
       /\ UNCHANGED pending

PairSpec == InitDefaults /\ [][PairNext]_vars

-----------------------------------------------------------------------------
(* The page: the pause button, the reset key, the skip button (whose handler
   calls advanceToNextStage) and the animation frames of the browser *)

LoopNext ==
    \/ manualOps < MaxClicks /\ ToggleSimulation /\ UNCHANGED pending
    \/ manualOps < MaxClicks /\ ResetSimulation /\ UNCHANGED pending
    \/ manualOps < MaxClicks /\ AdvanceToNextStage /\ UNCHANGED pending
    \/ simulationTime < MaxLoopTicks /\ SimulationLoop /\ UNCHANGED pending

LoopSpec == InitDefaults /\ [][LoopNext]_vars

-----------------------------------------------------------------------------
(* Properties *)

LevelInRange(x) == 0 <= x /\ x <= 100 * Unit

\* C1: after any sequence of update, setStage, advanceToNextStage and
\* skipToNextStage calls, sebum, bacteria, inflammation, neutrophil, pus and
\* healingProgress all lie in [0, 100].
C1_LevelsInRange ==
    /\ LevelInRange(currentSebumLevel)
    /\ LevelInRange(currentBacteriaLevel)
    /\ LevelInRange(currentInflammationLevel)
    /\ LevelInRange(currentNeutrophilLevel)
    /\ LevelInRange(currentPusLevel)
    /\ LevelInRange(healingProgress)

\* An update in stage resolved has added a positive healing rate to a
\* healingProgress of 100, and the cap has held it there.
C1_Witness ==
    /\ lastOp = "update"
    /\ prevStage = "resolved"
    /\ healingValue > 0
    /\ healingProgress = 100 * Unit

\* C2 as claimed: currentMedicationLevel stays in [0, 100] under update for
\* every medication parameter in [0, 1000].
C2_MedicationAtMost100 ==
    0 <= currentMedicationLevel /\ currentMedicationLevel <= 100 * Unit

\* C2 amended: currentMedicationLevel stays in [0, 1000], the scale of the
\* medication parameter it is smoothed towards.
C2_MedicationWithinSliderScale ==
    0 <= currentMedicationLevel /\ currentMedicationLevel <= 1000 * Unit

\* Updates with the medication parameter at 1000 have taken the smoothed
\* level above 100.
C2_Witness ==
    /\ lastOp = "update"
    /\ medicationValue = 1000
    /\ currentMedicationLevel > 100 * Unit

\* C3 as claimed: from a constructed engine with bacteriaParam > 0 and
\* medication 0, repeated update calls eventually take bacteria above 60 and
\* inflammation above 40 and the stage to comedone.
C3_EventuallyComedone ==
    /\ <>(currentBacteriaLevel > BACTERIA_THRESHOLD * Unit)
    /\ <>(currentInflammationLevel > INFLAMMATION_THRESHOLD * Unit)
    /\ <>(simulationStage = "comedone")

\* C4 as claimed: with the constructor's parameters and update alone, after
\* 100 updates the stage is comedone or a later one.
C4_ComedoneByTick100 ==
    simulationTime >= MaxDefaultTicks => simulationStage # "incubation"

\* The rows of the transition table, with their conditions on the levels
\* the tick has left, and the promotion made inside the integration.
TableEdge(from, to) ==
    \/ /\ from = "incubation" /\ to = "comedone"
       /\ currentBacteriaLevel > BACTERIA_THRESHOLD * Unit
       /\ currentInflammationLevel > INFLAMMATION_THRESHOLD * Unit
    \/ /\ from = "comedone" /\ to = "papule"
       /\ currentInflammationLevel > INFLAMMATION_THRESHOLD * Unit
    \/ /\ from = "papule" /\ to = "pustule"
       /\ currentPusLevel > PUS_THRESHOLD * Unit
    \/ /\ from = "pustule" /\ to = "rupture"
       /\ currentPusLevel > RUPTURE_THRESHOLD * Unit
    \/ /\ from = "rupture" /\ to = "healing"
       /\ healingProgress > HEALING_THRESHOLD * Unit
    \/ /\ from = "rupture" /\ to = "worsening"
       /\ healingProgress <= HEALING_THRESHOLD * Unit
       /\ \/ currentBacteriaLevel > BACTERIA_THRESHOLD * Unit
          \/ currentInflammationLevel > BACTERIA_THRESHOLD * Unit
    \/ /\ from = "healing" /\ to = "resolved"
       /\ \/ healingProgress >= RESOLVED_THRESHOLD * Unit
          \/ /\ currentInflammationLevel < 10 * Unit
             /\ currentPusLevel < 5 * Unit

\* C5: every stage change made by update is one row of the transition table
\* whose condition holds on the levels after the tick, or the promotion
\* healing -> resolved of the integration; update makes no other move.
C5_UpdateFollowsTable ==
    (lastOp = "update" /\ simulationStage # prevStage)
        => TableEdge(prevStage, simulationStage)

\* An update has taken papule to pustule through checkStageTransitions.
C5_Witness ==
    /\ lastOp = "update"
    /\ prevStage = "papule"
    /\ simulationStage = "pustule"
    /\ exception = "TypeError"

\* The forward cycle of advanceToNextStage.
AdvanceCycle(stage) ==
    CASE stage = "incubation" -> "comedone"
      [] stage = "comedone"   -> "papule"
      [] stage = "papule"     -> "pustule"
      [] stage = "pustule"    -> "rupture"
      [] stage = "rupture"    -> "healing"
      [] stage = "healing"    -> "resolved"
      [] stage = "resolved"   -> "incubation"

\* C6: each advanceToNextStage call made in a stage of the cycle incubation,
\* comedone, papule, pustule, rupture, healing, resolved enters the next
\* stage of that cycle, resolved wrapping to incubation; so seven calls in a
\* row from incubation visit the cycle in order and an eighth enters comedone.
C6_AdvanceFollowsCycle ==
    (lastOp = "advanceToNextStage" /\ prevStage # "worsening")
        => simulationStage = AdvanceCycle(prevStage)

\* Eight advanceToNextStage calls in a row on the constructed engine (the
\* only script of eight calls that leaves the accelerator alone) have gone
\* round the cycle and entered comedone again.
C6_Witness ==
    /\ manualOps = 8
    /\ simulationTime = 0
    /\ progressionAccelerator = Lit(1, 1)
    /\ lastOp = "advanceToNextStage"
    /\ prevStage = "incubation"
    /\ simulationStage = "comedone"

\* The condition of the automatic edge into a stage, as C7 lists them.
EntryCondition(stage) ==
    CASE stage = "comedone" ->
            /\ currentBacteriaLevel > BACTERIA_THRESHOLD * Unit
            /\ currentInflammationLevel > INFLAMMATION_THRESHOLD * Unit
      [] stage = "papule"   ->
            currentInflammationLevel > INFLAMMATION_THRESHOLD * Unit
      [] stage = "pustule"  -> currentPusLevel > PUS_THRESHOLD * Unit
      [] stage = "rupture"  -> currentPusLevel > RUPTURE_THRESHOLD * Unit
      [] stage = "healing"  -> healingProgress > HEALING_THRESHOLD * Unit
      [] stage = "resolved" -> healingProgress >= RESOLVED_THRESHOLD * Unit
      [] OTHER -> TRUE

\* C7 as claimed: right after an advanceToNextStage call the levels satisfy
\* the entry condition of the stage just entered.
C7_EntryConditionHolds ==
    (lastOp = "advanceToNextStage" /\ prevStage # "worsening")
        => EntryCondition(simulationStage)

\* The level advanceToNextStage forces on entering a stage.
ForcedLevel(stage) ==
    CASE stage = "comedone" -> currentSebumLevel = SEBUM_THRESHOLD * Unit
      [] stage = "papule"   ->
            /\ currentInflammationLevel = INFLAMMATION_THRESHOLD * Unit
            /\ currentBacteriaLevel >= (BACTERIA_THRESHOLD + 5) * Unit
      [] stage = "pustule"  -> currentPusLevel = PUS_THRESHOLD * Unit
      [] stage = "rupture"  -> currentPusLevel = RUPTURE_THRESHOLD * Unit
      [] stage = "healing"  -> healingProgress = HEALING_THRESHOLD * Unit
      [] stage = "resolved" -> healingProgress = RESOLVED_THRESHOLD * Unit
      [] OTHER -> TRUE

\* C7 amended: right after an advanceToNextStage call the level the call
\* forces equals the threshold itself (sebum 70 in comedone, inflammation 40
\* with bacteria >= 65 in papule, pus 70 in pustule, pus 90 in rupture,
\* healingProgress 30 in healing and 80 in resolved).
C7_ForcedLevelIsThreshold ==
    (lastOp = "advanceToNextStage" /\ prevStage # "worsening")
        => ForcedLevel(simulationStage)

\* advanceToNextStage has entered pustule with pus exactly at the threshold,
\* which the strict entry condition pus > 70 excludes.
C7_Witness ==
    /\ lastOp = "advanceToNextStage"
    /\ prevStage = "papule"
    /\ simulationStage = "pustule"
    /\ currentPusLevel = PUS_THRESHOLD * Unit

\* C8: advanceToNextStage entering comedone sets sebum to 70, entering
\* rupture sets healingProgress to 0, entering resolved from healing sets
\* inflammation and pus to 0.
C8_AdvanceSideEffects ==
    lastOp = "advanceToNextStage" =>
        /\ prevStage = "incubation" =>
               /\ simulationStage = "comedone"
               /\ currentSebumLevel = SEBUM_THRESHOLD * Unit
        /\ prevStage = "pustule" =>
               /\ simulationStage = "rupture"
               /\ healingProgress = 0
        /\ prevStage = "healing" =>
               /\ simulationStage = "resolved"
               /\ currentInflammationLevel = 0
               /\ currentPusLevel = 0

\* advanceToNextStage has entered rupture, after three earlier calls.
C8_Witness ==
    /\ lastOp = "advanceToNextStage"
    /\ prevStage = "pustule"
    /\ simulationStage = "rupture"
    /\ healingProgress = 0
    /\ manualOps = MaxCalls

\* C9 as claimed: advanceToNextStage in stage resolved yields incubation
\* with sebum 20 and bacteria, inflammation, neutrophil, pus,
\* currentMedicationLevel and healingProgress 0.
C9_WrapRestoresInitialLevels ==
    (lastOp = "advanceToNextStage" /\ prevStage = "resolved") =>
        /\ simulationStage = "incubation"
        /\ currentSebumLevel = 20 * Unit
        /\ currentBacteriaLevel = 0
        /\ currentInflammationLevel = 0
        /\ currentNeutrophilLevel = 0
        /\ currentPusLevel = 0
        /\ currentMedicationLevel = 0
        /\ healingProgress = 0

\* C10 as claimed: after reset the stage is incubation and every level has
\* its initial value.
C10_ResetRestoresInitialState ==
    lastOp = "reset" =>
        /\ simulationStage = "incubation"
        /\ currentSebumLevel = 20 * Unit
        /\ currentBacteriaLevel = 0
        /\ currentInflammationLevel = 0
        /\ currentNeutrophilLevel = 0
        /\ currentPusLevel = 0
        /\ currentMedicationLevel = 0
        /\ healingProgress = 0

\* The engine state C11 names: stage, levels, time and control parameters.
EngineState ==
    <<simulationStage, levels, currentMedicationLevel, simulationTime, params>>

\* C11: setStage(x) with x outside the eight stage names raises nothing and
\* leaves the stage, every level, simulationTime and every control parameter
\* exactly as they were before the call.
C11_InvalidStageRejected ==
    [][(lastOp' = "setStage" /\ lastArg' \notin validStages)
          => (exception' = "none" /\ EngineState' = EngineState)]_vars

\* setStage has been handed an unknown name in stage healing, after an
\* update that raised the smoothed medication level.
C11_Witness ==
    /\ lastOp = "setStage"
    /\ lastArg \notin validStages
    /\ prevStage = "healing"
    /\ simulationStage = "healing"
    /\ currentMedicationLevel > 0

\* C12: setStage(s) called right after setStage(s), s valid, leaves the stage
\* and the levels the first call left.
C12_SetStageIdempotent ==
    [][(/\ lastOp = "setStage" /\ lastArg \in validStages
        /\ lastOp' = "setStage" /\ lastArg' = lastArg)
          => (simulationStage' = simulationStage /\ levels' = levels)]_vars

\* Two calls have been made, the second is setStage("healing") and it found
\* the stage healing: the first, from incubation, was setStage("healing") too.
C12_Witness ==
    /\ manualOps = 2
    /\ lastOp = "setStage"
    /\ lastArg = "healing"
    /\ prevStage = "healing"
    /\ simulationStage = "healing"
    /\ healingProgress = 24 * Unit

\* The levels C13 lists for each stage.
SeededLevels(stage) ==
    CASE stage \in {"comedone", "worsening"} ->
            /\ currentBacteriaLevel = 48 * Unit
            /\ currentInflammationLevel = 32 * Unit
      [] stage = "papule" ->
            /\ currentInflammationLevel = 32 * Unit
            /\ currentPusLevel = 0
      [] stage = "pustule" -> currentPusLevel = 56 * Unit
      [] stage = "rupture" ->
            /\ currentPusLevel = 72 * Unit
            /\ healingProgress = 0
      [] stage = "healing" -> healingProgress = 24 * Unit
      [] stage = "incubation" ->
            /\ currentBacteriaLevel = 0
            /\ currentInflammationLevel = 0
      [] stage = "resolved" -> healingProgress = 100 * Unit

\* C13: setStage(s), s one of the eight stages, sets simulationStage to s
\* and seeds bacteria 48 and inflammation 32 for comedone and worsening,
\* inflammation 32 and pus 0 for papule, pus 56 for pustule, pus 72 and
\* healingProgress 0 for rupture, healingProgress 24 for healing, bacteria 0
\* and inflammation 0 for incubation, healingProgress 100 for resolved.
C13_SetStageSeedsLevels ==
    (lastOp = "setStage" /\ lastArg \in validStages) =>
        /\ simulationStage = lastArg
        /\ SeededLevels(lastArg)

\* setStage("rupture") has been called in stage pustule and has seeded pus.
C13_Witness ==
    /\ lastOp = "setStage"
    /\ lastArg = "rupture"
    /\ prevStage = "pustule"
    /\ simulationStage = "rupture"
    /\ currentPusLevel = 72 * Unit

\* C14 as claimed: the first update after setStage(s), s valid, leaves the
\* stage equal to s.
C14_StageKeptAfterSetStage ==
    [][(lastOp = "setStage" /\ lastArg \in validStages /\ lastOp' = "update")
          => simulationStage' = lastArg]_vars

\* C15 as claimed: update returns normally on every tick, the ticks in
\* which checkStageTransitions changes the stage included, so that the
\* steps after the transition check are executed.
C15_UpdateReturnsNormally ==
    lastOp = "update" => exception = "none"

\* C16: once the stage is worsening or resolved no update changes it; a
\* call that leaves such a stage is setStage, or advanceToNextStage from
\* resolved.
C16_TerminalStages ==
    prevStage \in {"worsening", "resolved"} =>
        /\ lastOp = "update" => simulationStage = prevStage
        /\ simulationStage # prevStage =>
               \/ lastOp = "setStage"
               \/ lastOp = "advanceToNextStage" /\ prevStage = "resolved"

\* The last of a long run of updates has found and left the stage worsening.
C16_Witness ==
    /\ lastOp = "update"
    /\ prevStage = "worsening"
    /\ simulationStage = "worsening"
    /\ simulationTime = MaxRunTicks

\* The direct successors of a stage in the transition table.
DirectSuccessor(from, to) ==
    \/ from = "incubation" /\ to = "comedone"
    \/ from = "comedone" /\ to = "papule"
    \/ from = "papule" /\ to = "pustule"
    \/ from = "pustule" /\ to = "rupture"
    \/ from = "rupture" /\ to \in {"healing", "worsening"}
    \/ from = "healing" /\ to = "resolved"

\* C17: the stage after one update is the stage before it or a direct
\* successor of it, the promotion healing -> resolved of the integration and
\* the transition check counted together.
C17_AtMostOneHop ==
    lastOp = "update" =>
        \/ simulationStage = prevStage
        \/ DirectSuccessor(prevStage, simulationStage)

\* An update has promoted healing to resolved inside the integration, below
\* the threshold of the transition check, which then found resolved.
C17_Witness ==
    /\ lastOp = "update"
    /\ prevStage = "healing"
    /\ simulationStage = "resolved"
    /\ healingProgress < RESOLVED_THRESHOLD * Unit
    /\ exception = "none"

\* C18: in every reachable state simulationStage is one of the eight names.
C18_StageIsValid == simulationStage \in validStages

\* setStage has been handed an unknown name in stage worsening.
C18_Witness ==
    /\ lastOp = "setStage"
    /\ lastArg = "scarring"
    /\ prevStage = "worsening"
    /\ simulationStage = "worsening"

\* C19: simulationTime never decreases: update adds one tick of 1/60 to it
\* and every other call leaves it unchanged.
C19_TimeMonotone ==
    [][IF lastOp' = "update"
       THEN simulationTime' = simulationTime + 1
       ELSE simulationTime' = simulationTime]_vars

\* advanceToNextStage has wrapped resolved to incubation after an update,
\* and the time is still that of the update.
C19_Witness ==
    /\ lastOp = "advanceToNextStage"
    /\ prevStage = "resolved"
    /\ simulationStage = "incubation"
    /\ simulationTime > 0

\* C20 as claimed: the sebum increase of one update, before clamping, is
\* sebumRate x (sebumParam / 500) x dt for the dt the caller handed over.
C20_SebumIncreaseFollowsDt ==
    [][(lastOp' = "update" /\ currentSebumLevel' < 100 * Unit)
          => currentSebumLevel' - currentSebumLevel
               = FMul(FMul(sebumRate', Lit(sebumValue, 500)), scaledDelta')]_vars

\* The parameter field a slider stands for.
ParamOfSlider(sliderId) ==
    CASE sliderId = "sebum-slider"        -> sebumValue
      [] sliderId = "bacteria-slider"     -> bacteriaValue
      [] sliderId = "medication-slider"   -> medicationValue
      [] sliderId = "inflammation-slider" -> inflammationValue
      [] sliderId = "healing-slider"      -> healingValue
      [] sliderId = "temperature-slider"  -> temperatureValue
      [] sliderId = "humidity-slider"     -> humidityValue
      [] sliderId = "friction-slider"     -> frictionValue

\* C21 as claimed: a parameter setter, called by handleSliderChange, returns
\* normally and has stored its argument clamped to [0, 1000].
C21_SetterStoresClamped ==
    lastOp = "handleSliderChange" =>
        /\ exception = "none"
        /\ ParamOfSlider(lastArg) = Max(0, Min(1000, lastValue))

\* C22: setProgressionAccelerator(x) stores 0.1 for x below 0.1, 10 for x
\* above 10 and x itself in between, and changes no level and no stage;
\* progressionAccelerator lies in [0.1, 10] in every reachable state.
C22_AcceleratorClamped ==
    /\ [](Lit(1, 10) <= progressionAccelerator
            /\ progressionAccelerator <= Lit(10, 1))
    /\ [][lastOp' = "setProgressionAccelerator" =>
            /\ progressionAccelerator' =
                   IF lastValue' < Lit(1, 10) THEN Lit(1, 10)
                   ELSE IF lastValue' > Lit(10, 1) THEN Lit(10, 1)
                   ELSE lastValue'
            /\ simulationStage' = simulationStage
            /\ levels' = levels
            /\ currentMedicationLevel' = currentMedicationLevel]_vars

\* setProgressionAccelerator(20) has been called in stage papule and has
\* stored 10.
C22_Witness ==
    /\ lastOp = "setProgressionAccelerator"
    /\ lastValue = Lit(20, 1)
    /\ progressionAccelerator = Lit(10, 1)
    /\ simulationStage = "papule"

\* C23: no step of the engine (update, setStage, advanceToNextStage,
\* skipToNextStage, setProgressionAccelerator) changes any of the eight
\* control parameters.  The seven thresholds are constants of the model, as
\* no statement of the source assigns them after the constructor.
C23_ParametersKept ==
    [][params' = params]_vars

\* Two updates and two skips have been made on an engine whose parameters
\* the user interface had set to medication 1000 and everything else 0.
C23_Witness ==
    /\ lastOp = "skipToNextStage"
    /\ manualOps = MaxManual
    /\ simulationTime = MaxTicks
    /\ medicationValue = 1000
    /\ sebumValue = 0
    /\ simulationStage = "papule"

C25_HealingShortcutResolves ==
    (/\ lastOp = "update"
     /\ prevStage = "healing"
     /\ currentInflammationLevel < 10 * Unit
     /\ currentPusLevel < 5 * Unit)
        => simulationStage = "resolved"

\* An update has promoted healing to resolved with healingProgress still
\* below RESOLVED_THRESHOLD.
C25_Witness ==
    /\ lastOp = "update"
    /\ prevStage = "healing"
    /\ simulationStage = "resolved"
    /\ currentInflammationLevel < 10 * Unit
    /\ currentPusLevel < 5 * Unit
    /\ healingProgress < RESOLVED_THRESHOLD * Unit

\* C29: an update raises currentInflammationLevel only if the bacteria level
\* it has just stored exceeds 60 or it started in comedone or papule; started
\* in any of incubation, pustule, rupture, worsening with the new bacteria
\* level at most 60, it leaves inflammation and neutrophils unchanged.
C29_InflammationGate ==
    [][lastOp' = "update" =>
        /\ currentInflammationLevel' > currentInflammationLevel =>
              \/ currentBacteriaLevel' > BACTERIA_THRESHOLD * Unit
              \/ simulationStage \in {"comedone", "papule"}
        /\ (/\ simulationStage \notin {"comedone", "papule", "healing", "resolved"}
            /\ currentBacteriaLevel' <= BACTERIA_THRESHOLD * Unit) =>
              /\ currentInflammationLevel' = currentInflammationLevel
              /\ currentNeutrophilLevel' = currentNeutrophilLevel]_vars

\* Updates have run in pustule with bacteria grown above the seeded 48 but not
\* above 60, and inflammation is still the seeded 32.
C29_Witness ==
    /\ lastOp = "update"
    /\ prevStage = "pustule"
    /\ simulationStage = "pustule"
    /\ currentBacteriaLevel > 48 * Unit
    /\ currentBacteriaLevel <= BACTERIA_THRESHOLD * Unit
    /\ currentInflammationLevel = 32 * Unit
    /\ simulationTime >= 2

\* C30: an update raises currentPusLevel only if the neutrophil level exceeds
\* 10 and it started in papule or pustule; started in incubation, comedone,
\* rupture or worsening it leaves pus unchanged.
C30_PusGate ==
    [][lastOp' = "update" =>
        /\ currentPusLevel' > currentPusLevel =>
              /\ currentNeutrophilLevel' > 10 * Unit
              /\ simulationStage \in {"papule", "pustule"}
        /\ simulationStage \in {"incubation", "comedone", "rupture", "worsening"}
              => currentPusLevel' = currentPusLevel]_vars

\* An update has run in rupture with neutrophils above 10, and pus is still
\* above the rupture threshold, where it was put on entering rupture.
C30_Witness ==
    /\ lastOp = "update"
    /\ prevStage = "rupture"
    /\ currentNeutrophilLevel > 10 * Unit
    /\ currentPusLevel > RUPTURE_THRESHOLD * Unit

\* The stage checkStageTransitions leaves a rupture in, as the claim states it.
RuptureOutcome(bacteria, inflammation, healing) ==
    IF healing > 30 * Unit
    THEN "healing"
    ELSE IF bacteria > 60 * Unit \/ inflammation > 60 * Unit
         THEN "worsening"
         ELSE "rupture"

\* C26: an update that starts in rupture ends in healing if healingProgress
\* exceeds 30, even with bacteria above 60; otherwise in worsening iff
\* bacteria or inflammation exceeds 60; otherwise it stays in rupture, in
\* particular with inflammation in (40, 60].
C26_RuptureRow ==
    (lastOp = "update" /\ prevStage = "rupture") =>
        simulationStage = RuptureOutcome(currentBacteriaLevel,
                                         currentInflammationLevel,
                                         healingProgress)

\* An update has left the engine in rupture with inflammation between 40 and
\* 60, bacteria at most 60 and no healing progress.
C26_Witness ==
    /\ lastOp = "update"
    /\ prevStage = "rupture"
    /\ simulationStage = "rupture"
    /\ currentInflammationLevel > INFLAMMATION_THRESHOLD * Unit
    /\ currentInflammationLevel <= 60 * Unit
    /\ currentBacteriaLevel <= 60 * Unit
    /\ healingProgress <= 30 * Unit

\* C27: whenever the condition of a row of the transition table for the
\* stage an update started in holds on the levels the update has stored, the
\* update has made that transition; healing -> resolved is made at
\* healingProgress exactly 80, rupture -> healing is not made at exactly 30.
C27_TransitionSameTick ==
    lastOp = "update" =>
        /\ \A to \in validStages :
              TableEdge(prevStage, to) => simulationStage = to
        /\ (prevStage = "rupture"
              /\ healingProgress = HEALING_THRESHOLD * Unit)
              => simulationStage # "healing"

\* An update has taken healing to resolved with healingProgress exactly 80,
\* inflammation and pus still far above the levels of the shortcut.
C27_Witness ==
    /\ lastOp = "update"
    /\ prevStage = "healing"
    /\ simulationStage = "resolved"
    /\ healingProgress = RESOLVED_THRESHOLD * Unit
    /\ currentInflammationLevel >= 10 * Unit
    /\ currentPusLevel >= 5 * Unit

\* The bacteria levels of the engine with medication 1000 and of the engine
\* with medication 0.
MedicatedBacteria ==
    IF medicationValue = 1000 THEN currentBacteriaLevel ELSE twinBacteriaLevel

ControlBacteria ==
    IF medicationValue = 1000 THEN twinBacteriaLevel ELSE currentBacteriaLevel

\* C24 as claimed: of two engines updated together from one state outside
\* incubation with bacteria > 0, equal in all but medication (1000 and 0), the
\* medicated one never has the greater currentBacteriaLevel, and after an
\* update it has the smaller one unless the control is at 100.
C24_MedicationNeverAhead ==
    twinBacteriaLevel # Undefined =>
        /\ MedicatedBacteria <= ControlBacteria
        /\ (lastOp = "update" /\ ControlBacteria < 100 * Unit)
              => MedicatedBacteria < ControlBacteria

\* C31: an update never lowers currentSebumLevel, in any stage, and leaves
\* it at most 100.
C31_SebumNeverDecreases ==
    [][lastOp' = "update" =>
          /\ currentSebumLevel' >= currentSebumLevel
          /\ currentSebumLevel' <= 100 * Unit]_vars

\* An update has brought sebum to the cap of 100.
C31_Witness ==
    /\ lastOp = "update"
    /\ currentSebumLevel = 100 * Unit
    /\ sebumValue = 1000
    /\ temperatureValue = 1000

C33_LoopOnlyWhileRunning ==
    /\ [](scheduledFrames <= 1)
    /\ [][simulationTime' # simulationTime =>
            /\ isSimulationRunning
            /\ scheduledFrames = 1]_vars

\* The loop is running: a callback has made an update and has requested the
\* next one, which is the only one scheduled.
C33_Witness ==
    /\ isSimulationRunning
    /\ scheduledFrames = 1
    /\ frameRequested
    /\ lastOp = "update"
    /\ simulationTime >= 1
    /\ simulationTime < MaxLoopTicks

\* C34 as claimed (its frame half): an update that starts in healing or
\* resolved raises none of inflammation, neutrophils and pus and does not
\* lower healingProgress.
C34_HealingOnlyDecays ==
    [][(lastOp' = "update" /\ simulationStage \in {"healing", "resolved"}) =>
          /\ currentInflammationLevel' <= currentInflammationLevel
          /\ currentNeutrophilLevel' <= currentNeutrophilLevel
          /\ currentPusLevel' <= currentPusLevel
          /\ healingProgress' >= healingProgress]_vars

\* C35: an update changes healingProgress only if it starts in healing or
\* resolved; setStage and advanceToNextStage enter rupture with
\* healingProgress 0; so an update that starts in rupture or worsening with
\* healingProgress 0 ends in rupture or worsening with healingProgress 0, and
\* updates alone never take such a rupture to healing.
C35_NoHealingFromFreshRupture ==
    [][/\ (lastOp' = "update"
             /\ simulationStage \notin {"healing", "resolved"})
          => healingProgress' = healingProgress
       /\ (lastOp' \in {"setStage", "advanceToNextStage"}
             /\ simulationStage # "rupture"
             /\ simulationStage' = "rupture")
          => healingProgress' = 0
       /\ (lastOp' = "update"
             /\ simulationStage \in {"rupture", "worsening"}
             /\ healingProgress = 0)
          => /\ simulationStage' \in {"rupture", "worsening"}
             /\ healingProgress' = 0]_vars

\* After setStage or advanceToNextStage into rupture, MaxRunTicks updates
\* have run: the stage is rupture or worsening, healingProgress is 0.
C35_Witness ==
    /\ lastOp = "update"
    /\ simulationTime = MaxRunTicks
    /\ simulationStage \in {"rupture", "worsening"}
    /\ healingProgress = 0
    /\ healingValue = 1000
    /\ currentPusLevel \in {72 * Unit, 90 * Unit}

\* C36: two engines that differ only in friction and humidity and have
\* received the same calls of update, setStage, advanceToNextStage and
\* skipToNextStage have the same stage and the same six levels.
C36_FrictionHumidityUnobserved ==
    (otherEngine # <<>> /\ CallsHere = CallsThere) =>
        /\ simulationStage = Other.stage
        /\ levels = Other.levels

\* Both engines have received setStage and two updates; inflammation has
\* risen above the seeded 32 in the one with friction 1000, whose
\* baselineInflammation is 0.5 where the other engine's is 0.
C36_Witness ==
    /\ otherEngine # <<>>
    /\ CallsHere = CallsThere
    /\ CallsHere = MaxPairOps
    /\ lastOp = "update"
    /\ frictionValue = PairFriction
    /\ Other.params[8] = 0
    /\ baselineInflammation = Lit(1, 2)
    /\ Other.rates[3] = 0
    /\ currentInflammationLevel > 32 * Unit

\* C37: advanceToNextStage called in worsening changes neither the stage nor
\* any level; the only call that takes the engine out of worsening is
\* setStage.
C37_AdvanceKeepsWorsening ==
    [][/\ (lastOp' = "advanceToNextStage" /\ simulationStage = "worsening")
          => /\ simulationStage' = "worsening"
             /\ levels' = levels
             /\ currentMedicationLevel' = currentMedicationLevel
             /\ simulationTime' = simulationTime
       /\ (simulationStage = "worsening" /\ simulationStage' # "worsening")
          => lastOp' = "setStage"]_vars

\* advanceToNextStage has been called in worsening and has returned.
C37_Witness ==
    /\ lastOp = "advanceToNextStage"
    /\ prevStage = "worsening"
    /\ simulationStage = "worsening"
    /\ exception = "none"

\* The stage skipToNextStage leaves, by the stage it finds.
SkipPath(stage) ==
    CASE stage = "incubation" -> "comedone"
      [] stage = "comedone"   -> "papule"
      [] stage = "papule"     -> "pustule"
      [] stage = "pustule"    -> "rupture"
      [] stage = "rupture"    -> "healing"
      [] stage = "healing"    -> "resolved"
      [] OTHER                -> stage

\* C38: skipToNextStage moves one step along incubation, comedone, papule,
\* pustule, rupture, healing, resolved and leaves the level that gates the
\* stage it enters 0.1 above its threshold (papule: bacteria 60.1 and
\* inflammation 40.1; pustule: pus 70.1; rupture: pus 90.1; healing:
\* healingProgress 30.1; resolved: healingProgress 80.1); in resolved the
\* stage stays resolved, in worsening nothing changes.
C38_SkipOneStepAboveThreshold ==
    [][lastOp' = "skipToNextStage" =>
          /\ simulationStage' = SkipPath(simulationStage)
          /\ simulationStage = "comedone" =>
                /\ currentBacteriaLevel' = 60 * Unit + Lit(1, 10)
                /\ currentInflammationLevel' = 40 * Unit + Lit(1, 10)
          /\ simulationStage = "papule" =>
                currentPusLevel' = 70 * Unit + Lit(1, 10)
          /\ simulationStage = "pustule" =>
                currentPusLevel' = 90 * Unit + Lit(1, 10)
          /\ simulationStage = "rupture" =>
                healingProgress' = 30 * Unit + Lit(1, 10)
          /\ simulationStage = "healing" =>
                healingProgress' = 80 * Unit + Lit(1, 10)
          /\ simulationStage = "worsening" => levels' = levels]_vars

\* skipToNextStage has been called in resolved: the stage is still resolved.
C38_Witness ==
    /\ lastOp = "skipToNextStage"
    /\ prevStage = "resolved"
    /\ simulationStage = "resolved"
    /\ healingProgress = 100 * Unit
    /\ currentInflammationLevel = 15 * Unit

\* C39: setStage(s) for a valid s changes only simulationStage and the levels
\* resetStageProgress assigns for s (bacteria for incubation, comedone and
\* worsening; inflammation for those and papule; pus for papule, pustule and
\* rupture; healingProgress for rupture, healing and resolved); sebum,
\* neutrophils, the medication level, the clock, the parameters and every
\* other level keep their values.
C39_SetStageFrame ==
    [][(lastOp' = "setStage" /\ lastArg' \in validStages) =>
          /\ simulationStage' = lastArg'
          /\ UNCHANGED <<currentSebumLevel, currentNeutrophilLevel,
                         currentMedicationLevel, simulationTime, params,
                         rates, progressionAccelerator>>
          /\ lastArg' \notin {"incubation", "comedone", "worsening"} =>
                UNCHANGED currentBacteriaLevel
          /\ lastArg' \notin {"incubation", "comedone", "worsening", "papule"} =>
                UNCHANGED currentInflammationLevel
          /\ lastArg' \notin {"papule", "pustule", "rupture"} =>
                UNCHANGED currentPusLevel
          /\ lastArg' \notin {"rupture", "healing", "resolved"} =>
                UNCHANGED healingProgress]_vars

\* setStage("pustule") after setStage("resolved"): healingProgress is still
\* the 100 the first call set, beside the pus the second one seeded.
C39_Witness ==
    /\ lastOp = "setStage"
    /\ lastArg = "pustule"
    /\ prevStage = "resolved"
    /\ simulationStage = "pustule"
    /\ healingProgress = 100 * Unit
    /\ currentPusLevel = 56 * Unit

=============================================================================
